---------------------------- MODULE Spec2Model ----------------------------
(***************************************************************************)
(* A model of raptor_serialize.c: the serializer factory registry, the     *)
(* serializer object and its session (start / statement / end / free), and *)
(* the feature table (set/get by integer and by string).                   *)
(*                                                                         *)
(* C objects are modelled as follows.                                      *)
(*   - A pointer is a natural number: 0 is NULL, p > 0 is heap[p].         *)
(*   - heap maps each allocated object (a URI, an iostream, a C string,    *)
(*     the serializer context) to its kind, its content and the number of  *)
(*     times it was released.  An object that was released exactly once    *)
(*     and that no field of the serializer refers to any more is dropped   *)
(*     from heap when the call returns (Forget): its life ended as it      *)
(*     should.  Every other object stays, so that the objects of heap are  *)
(*     the live ones (rel = 0, referred to), the leaked ones (rel = 0, not *)
(*     referred to), the dangling ones (rel >= 1, still referred to) and   *)
(*     the ones released more than once (rel = 2: the count stops there).  *)
(*   - A C string is a sequence of one-character strings; NullStr stands   *)
(*     for a NULL char pointer.                                            *)
(*   - Each C function is an operator from the objects it reads (and the   *)
(*     outcome of every external call it makes: an allocation, a factory   *)
(*     callback) to a record of its return value and the objects it wrote. *)
(***************************************************************************)
EXTENDS Integers, Sequences, FiniteSets, TLC

VARIABLES
  serializers,     \* static raptor_sequence* serializers: the factory list
  self,            \* the raptor_serializer object: "none", "live" or "freed";
                   \* "aborted" once a fatal error has ended the process
  ser,             \* the fields of the raptor_serializer struct
  heap,            \* the allocated objects, each with its release count
  last             \* the last API call: its arguments, result and callbacks

vars == <<serializers, self, ser, heap, last>>

NULL == 0

NullStr == <<"(null)">>

(***************************************************************************)
(* Bounds of the model.                                                    *)
(***************************************************************************)
\* objects heap holds at once
MaxObjs == 3
\* highest locator line a serialize_statement callback advances to
MaxLine == 1

\* registrations made
MaxFactories == 2

(***************************************************************************)
(* The heap.                                                               *)
(***************************************************************************)
Min(a, b) == IF a < b THEN a ELSE b

\* the pointer Alloc(h, ..) returns: the lowest address not in use
NewPtr(h) ==
  CHOOSE p \in 1..(Cardinality(DOMAIN h) + 1) :
    /\ p \notin DOMAIN h
    /\ \A q \in 1..(p - 1) : q \in DOMAIN h

\* RAPTOR_MALLOC / RAPTOR_CALLOC / raptor_new_uri ...: a new object
Alloc(h, kind, val) ==
  h @@ (NewPtr(h) :> [kind |-> kind, val |-> val, rel |-> 0])

\* RAPTOR_FREE / raptor_free_uri / raptor_free_iostream of pointer p
Release(h, p) == [h EXCEPT ![p].rel = Min(@ + 1, 2)]

NoHeap == [p \in {} |-> 0]

(***************************************************************************)
(* Feature identifiers: the raptor_feature enumeration as the switch       *)
(* statements of this file list it, and one value outside the enumeration. *)
(***************************************************************************)
ParserFeatures ==
  {"SCANNING", "ASSUME_IS_RDF", "ALLOW_NON_NS_ATTRIBUTES",
   "ALLOW_OTHER_PARSETYPES", "ALLOW_BAGID", "ALLOW_RDF_TYPE_RDF_LIST",
   "NORMALIZE_LANGUAGE", "NON_NFC_FATAL", "WARN_OTHER_PARSETYPES",
   "CHECK_RDF_ID", "HTML_TAG_SOUP"}

SharedFeatures == {"NO_NET"}

XmlWriterFeatures ==
  {"WRITER_AUTO_INDENT", "WRITER_AUTO_EMPTY", "WRITER_INDENT_WIDTH"}

BorderFillFeatures ==
  {"RESOURCE_BORDER", "LITERAL_BORDER", "BNODE_BORDER",
   "RESOURCE_FILL", "LITERAL_FILL", "BNODE_FILL"}

StringFeatures == BorderFillFeatures \cup {"START_URI"}

IntegerFeatures ==
  {"RELATIVE_URIS", "WRITER_XML_VERSION", "WRITER_XML_DECLARATION"}
    \cup ParserFeatures \cup SharedFeatures \cup XmlWriterFeatures

UnknownFeature == "UNKNOWN"

Features == IntegerFeatures \cup StringFeatures \cup {UnknownFeature}

\* raptor_feature_value_type: 1 for a string feature, 0 for an integer
\* feature, negative for a value outside the enumeration
raptor_feature_value_type(feature) ==
  IF feature \in StringFeatures THEN 1
  ELSE IF feature \in IntegerFeatures THEN 0
  ELSE -1

\* the struct field behind each border / fill feature
BorderField(feature) ==
  CASE feature = "RESOURCE_BORDER" -> "feature_resource_border"
    [] feature = "LITERAL_BORDER"  -> "feature_literal_border"
    [] feature = "BNODE_BORDER"    -> "feature_bnode_border"
    [] feature = "RESOURCE_FILL"   -> "feature_resource_fill"
    [] feature = "LITERAL_FILL"    -> "feature_literal_fill"
    [] feature = "BNODE_FILL"      -> "feature_bnode_fill"

(***************************************************************************)
(* The factory registry.                                                   *)
(***************************************************************************)
\* const char *name == NULL
NoName == "(null)"

\* One raptor_serializer_factory.  The function pointers the registration
\* callback fills in are modelled by whether they are set.
Factory(name, alias, label, mime_type, uri_string, start, end, ns, nsns) ==
  [name |-> name, alias |-> alias, label |-> label,
   mime_type |-> mime_type, uri_string |-> uri_string,
   serialize_start |-> start, serialize_end |-> end,
   declare_namespace |-> ns, declare_namespace_from_namespace |-> nsns]

\* The registry raptor_serializers_init() builds: one factory with every
\* optional callback, one with none, one with declare_namespace only.
InitialRegistry ==
  << Factory("rdfxml", NoName, "RDF/XML", "application/rdf+xml", "uri:rdfxml",
             TRUE, TRUE, TRUE, TRUE),
     Factory("ntriples", "nt", "N-Triples", NoName, NoName,
             FALSE, FALSE, FALSE, FALSE),
     Factory("turtle", NoName, "Turtle", "application/x-turtle", NoName,
             TRUE, FALSE, TRUE, FALSE) >>

\* raptor_sequence_get_at(seq, i), i counted from 0: NULL out of range,
\* otherwise the (1-based) position of the factory in the sequence
raptor_sequence_get_at(seq, i) ==
  IF i >= 0 /\ i < Len(seq) THEN i + 1 ELSE NULL

\* faulty variant: the alias is not compared
RECURSIVE FactoryScan_NameOnly(_, _, _)
FactoryScan_NameOnly(seq, name, i) ==
  LET factory == raptor_sequence_get_at(seq, i) IN
  IF factory = NULL THEN NULL
  ELSE IF seq[factory].name = name THEN factory
       ELSE FactoryScan_NameOnly(seq, name, i + 1)

\* the for loop of raptor_get_serializer_factory, from index i
RECURSIVE FactoryScan(_, _, _)
FactoryScan(seq, name, i) ==
  LET factory == raptor_sequence_get_at(seq, i) IN
  IF factory = NULL THEN NULL
  ELSE IF seq[factory].name = name
          \/ (seq[factory].alias # NoName /\ seq[factory].alias = name)
       THEN factory
       ELSE FactoryScan(seq, name, i + 1)

raptor_get_serializer_factory(seq, name) ==
  IF name = NoName THEN raptor_sequence_get_at(seq, 0)
  ELSE FactoryScan(seq, name, 0)

\* one invocation of a factory callback and what it returned (0 for void)
Called(fn, rc) == [fn |-> fn, rc |-> rc]

\* the for loop of raptor_serializer_register_factory, from index i:
\* whether a registered factory has the name
RECURSIVE NameScan(_, _, _)
NameScan(seq, name, i) ==
  LET serializer == raptor_sequence_get_at(seq, i) IN
  IF serializer = NULL THEN FALSE
  ELSE IF seq[serializer].name = name THEN TRUE
       ELSE NameScan(seq, name, i + 1)

\* what a call of raptor_serializer_register_factory leaves: the registry,
\* the callbacks made, and the RAPTOR_FATAL message if it ended in one
Registration(seq, cbs, fatal) ==
  [seq |-> seq, cbs |-> cbs, fatal |-> fatal]

NotFatal == "(none)"

\* faulty variant: the names already registered are not looked at
raptor_serializer_register_factory_NoScan(seq, name, label, mime_type, alias, uri_string, factory, calloc_ok) ==
  IF ~calloc_ok THEN Registration(seq, <<>>, "Out of memory")
  ELSE Registration(
         Append(seq, Factory(name, alias, label, mime_type, uri_string,
                             factory.serialize_start, factory.serialize_end,
                             factory.declare_namespace,
                             factory.declare_namespace_from_namespace)),
         <<Called("factory", 0)>>, NotFatal)

\* factory: the function pointers the registration callback stores;
\* calloc_ok: whether every RAPTOR_CALLOC succeeds.  RAPTOR_FATAL1 and
\* RAPTOR_FATAL2 end the process.
raptor_serializer_register_factory(seq, name, label, mime_type, alias, uri_string, factory, calloc_ok) ==
  IF NameScan(seq, name, 0)
  THEN Registration(seq, <<>>, "already registered")
  ELSE IF ~calloc_ok THEN Registration(seq, <<>>, "Out of memory")
  ELSE Registration(
         Append(seq, Factory(name, alias, label, mime_type, uri_string,
                             factory.serialize_start, factory.serialize_end,
                             factory.declare_namespace,
                             factory.declare_namespace_from_namespace)),
         <<Called("factory", 0)>>, NotFatal)

\* a const char* the caller's pointer is not made to point to
Unwritten == "(unwritten)"

\* the four output parameters before the call
NoOutput ==
  [name |-> Unwritten, label |-> Unwritten, mime_type |-> Unwritten,
   uri_string |-> Unwritten]

\* faulty variant: a counter out of range is not reported
raptor_serializers_enumerate_NoRangeTest(seq, counter, wanted) ==
  LET factory == raptor_sequence_get_at(seq, counter) IN
  IF factory = NULL THEN [rc |-> 0, out |-> NoOutput]
  ELSE [rc |-> 0,
        out |-> [p \in DOMAIN NoOutput |->
                   IF p \in wanted THEN seq[factory][p] ELSE Unwritten]]

\* wanted: the output parameters that are not NULL
raptor_serializers_enumerate(seq, counter, wanted) ==
  LET factory == raptor_sequence_get_at(seq, counter) IN
  IF factory = NULL THEN [rc |-> 1, out |-> NoOutput]
  ELSE [rc |-> 0,
        out |-> [p \in DOMAIN NoOutput |->
                   IF p \in wanted THEN seq[factory][p] ELSE Unwritten]]

\* raptor_serializer_syntax_name_check
raptor_serializer_syntax_name_check(seq, name) ==
  IF raptor_get_serializer_factory(seq, name) # NULL THEN 1 ELSE 0

(***************************************************************************)
(* The serializer object.                                                  *)
(***************************************************************************)
\* RAPTOR_CALLOC(raptor_serializer, 1, sizeof(raptor_serializer))
ZeroedSerializer ==
  [factory |-> NULL, context |-> NULL, base_uri |-> NULL,
   locator |-> [uri |-> NULL, line |-> 0, column |-> 0],
   iostream |-> NULL,
   feature_relative_uris |-> 0, feature_start_uri |-> NULL,
   xml_version |-> 0, feature_write_xml_declaration |-> 0,
   feature_resource_border |-> NULL, feature_literal_border |-> NULL,
   feature_bnode_border |-> NULL, feature_resource_fill |-> NULL,
   feature_literal_fill |-> NULL, feature_bnode_fill |-> NULL,
   error_user_data |-> NULL, error_handler |-> NULL,
   warning_user_data |-> NULL, warning_handler |-> NULL]

\* what a call returns: its value, the struct and heap it leaves, and the
\* factory callbacks it invoked, in order
Ret(rc, s, h, cbs) == [rc |-> rc, ser |-> s, heap |-> h, cbs |-> cbs]

raptor_free_serializer(s, h) ==
  LET cbs == IF s.factory # NULL THEN <<Called("terminate", 0)>> ELSE <<>>
      h1  == IF s.context # NULL THEN Release(h, s.context) ELSE h
      h2  == IF s.base_uri # NULL THEN Release(h1, s.base_uri) ELSE h1
      h3  == IF s.feature_start_uri # NULL
             THEN Release(h2, s.feature_start_uri) ELSE h2
  IN Ret(0, s, h3, cbs)

\* faulty variant: the XML declaration default is left at the zero of calloc
DefaultFeatures_NoDeclaration(s) ==
  [s EXCEPT !.feature_relative_uris = 1,
            !.feature_resource_border = NULL,
            !.feature_literal_border = NULL,
            !.feature_bnode_border = NULL,
            !.feature_resource_fill = NULL,
            !.feature_literal_fill = NULL,
            !.feature_bnode_fill = NULL,
            !.xml_version = 10]

\* the "Default features" block of raptor_new_serializer
DefaultFeatures(s) ==
  [s EXCEPT !.feature_relative_uris = 1,
            !.feature_resource_border = NULL,
            !.feature_literal_border = NULL,
            !.feature_bnode_border = NULL,
            !.feature_resource_fill = NULL,
            !.feature_literal_fill = NULL,
            !.feature_bnode_fill = NULL,
            !.xml_version = 10,
            !.feature_write_xml_declaration = 1]

\* faulty variant: a failed init returns NULL without raptor_free_serializer
raptor_new_serializer_NoCleanup(seq, h, name, self_ok, context_ok, init_rc) ==
  LET factory == raptor_get_serializer_factory(seq, name) IN
  IF factory = NULL THEN Ret(1, ZeroedSerializer, h, <<>>)
  ELSE IF ~self_ok THEN Ret(1, ZeroedSerializer, h, <<>>)
  ELSE IF ~context_ok THEN
    LET f == raptor_free_serializer(ZeroedSerializer, h)
    IN Ret(1, ZeroedSerializer, f.heap, f.cbs)
  ELSE
    LET h1 == Alloc(h, "context", <<>>)
        s1 == DefaultFeatures([ZeroedSerializer EXCEPT
                                 !.context = NewPtr(h),
                                 !.factory = factory])
    IN IF init_rc # 0
       THEN Ret(1, ZeroedSerializer, h1, <<Called("init", init_rc)>>)
       ELSE Ret(0, s1, h1, <<Called("init", init_rc)>>)

\* raptor_new_serializer.  self_ok, context_ok: whether each RAPTOR_CALLOC
\* succeeds; init_rc: what factory->init returns.  rc = 0 stands for the
\* new object being returned (it is ser), rc = 1 for NULL.
raptor_new_serializer(seq, h, name, self_ok, context_ok, init_rc) ==
  LET factory == raptor_get_serializer_factory(seq, name) IN
  IF factory = NULL THEN Ret(1, ZeroedSerializer, h, <<>>)
  ELSE IF ~self_ok THEN Ret(1, ZeroedSerializer, h, <<>>)
  ELSE IF ~context_ok THEN
    LET f == raptor_free_serializer(ZeroedSerializer, h)
    IN Ret(1, ZeroedSerializer, f.heap, f.cbs)
  ELSE
    LET h1 == Alloc(h, "context", <<>>)
        s1 == DefaultFeatures([ZeroedSerializer EXCEPT
                                 !.context = NewPtr(h),
                                 !.factory = factory])
    IN IF init_rc # 0 THEN
         LET f == raptor_free_serializer(s1, h1)
         IN Ret(1, ZeroedSerializer, f.heap, <<Called("init", init_rc)>> \o f.cbs)
       ELSE Ret(0, s1, h1, <<Called("init", init_rc)>>)

(***************************************************************************)
(* The session.  In each operator f is the serializer's factory, and the   *)
(* parameters after the C arguments are the outcomes of the external calls *)
(* the function makes: *_ok for an allocation, *_rc for a factory callback.*)
(***************************************************************************)
\* the tail shared by the four start functions: call serialize_start if set
StartCallback(f, s, h, start_rc) ==
  IF f.serialize_start
  THEN Ret(start_rc, s, h, <<Called("serialize_start", start_rc)>>)
  ELSE Ret(0, s, h, <<>>)

\* faulty variant: the iostream is tested before the old base URI is released
raptor_serialize_start_TestFirst(f, s, h, uri, iostream, copy_ok, start_rc) ==
  IF iostream = NULL THEN Ret(1, s, h, <<>>)
  ELSE
    LET h1 == IF s.base_uri # NULL THEN Release(h, s.base_uri) ELSE h
        copied == uri # NullStr /\ copy_ok
        h2 == IF copied THEN Alloc(h1, "uri", uri) ELSE h1
        u  == IF copied THEN NewPtr(h1) ELSE NULL
        s1 == [s EXCEPT !.base_uri = u,
                        !.locator = [uri |-> u, line |-> 0, column |-> 0],
                        !.iostream = iostream]
    IN StartCallback(f, s1, h2, start_rc)

\* faulty variant: a new session starts from the default features
raptor_serialize_start_ResetsFeatures(f, s, h, uri, iostream, copy_ok, start_rc) ==
  LET h1 == IF s.base_uri # NULL THEN Release(h, s.base_uri) ELSE h IN
  IF iostream = NULL THEN Ret(1, s, h1, <<>>)
  ELSE
    LET copied == uri # NullStr /\ copy_ok
        h2 == IF copied THEN Alloc(h1, "uri", uri) ELSE h1
        u  == IF copied THEN NewPtr(h1) ELSE NULL
        s1 == [s EXCEPT !.base_uri = u,
                        !.locator = [uri |-> u, line |-> 0, column |-> 0],
                        !.iostream = iostream]
    IN StartCallback(f, DefaultFeatures(s1), h2, start_rc)

\* uri: the caller's URI (its string, NullStr for NULL); iostream: a pointer
raptor_serialize_start(f, s, h, uri, iostream, copy_ok, start_rc) ==
  LET h1 == IF s.base_uri # NULL THEN Release(h, s.base_uri) ELSE h IN
  IF iostream = NULL THEN Ret(1, s, h1, <<>>)
  ELSE
    LET copied == uri # NullStr /\ copy_ok
        h2 == IF copied THEN Alloc(h1, "uri", uri) ELSE h1
        u  == IF copied THEN NewPtr(h1) ELSE NULL
        s1 == [s EXCEPT !.base_uri = u,
                        !.locator = [uri |-> u, line |-> 0, column |-> 0],
                        !.iostream = iostream]
    IN StartCallback(f, s1, h2, start_rc)

\* raptor_uri_filename_to_uri_string
FilenameToUriString(filename) == <<"f", "i", "l", "e", ":">> \o filename

raptor_serialize_start_to_filename(f, s, h, filename, string_ok, uri_ok, io_ok, start_rc) ==
  IF ~string_ok THEN Ret(1, s, h, <<>>)
  ELSE
    LET h1 == IF s.base_uri # NULL THEN Release(h, s.base_uri) ELSE h
        h2 == IF uri_ok THEN Alloc(h1, "uri", FilenameToUriString(filename))
              ELSE h1
        u  == IF uri_ok THEN NewPtr(h1) ELSE NULL
        h3 == IF io_ok THEN Alloc(h2, "iostream", <<>>) ELSE h2
        io == IF io_ok THEN NewPtr(h2) ELSE NULL
        s1 == [s EXCEPT !.base_uri = u,
                        !.locator = [uri |-> u, line |-> 0, column |-> 0],
                        !.iostream = io]
    IN IF io = NULL THEN Ret(1, s1, h3, <<>>)
       ELSE StartCallback(f, s1, h3, start_rc)

\* raptor_serialize_start_to_string and raptor_serialize_start_to_file_handle
\* differ only in the iostream constructor they call
StartToNewIostream(f, s, h, uri, copy_ok, io_ok, start_rc) ==
  LET h1 == IF s.base_uri # NULL THEN Release(h, s.base_uri) ELSE h
      copied == uri # NullStr /\ copy_ok
      h2 == IF copied THEN Alloc(h1, "uri", uri) ELSE h1
      u  == IF copied THEN NewPtr(h1) ELSE NULL
      h3 == IF io_ok THEN Alloc(h2, "iostream", <<>>) ELSE h2
      io == IF io_ok THEN NewPtr(h2) ELSE NULL
      s1 == [s EXCEPT !.base_uri = u,
                      !.locator = [uri |-> u, line |-> 0, column |-> 0],
                      !.iostream = io]
  IN IF io = NULL THEN Ret(1, s1, h3, <<>>)
     ELSE StartCallback(f, s1, h3, start_rc)

raptor_serialize_start_to_string(f, s, h, uri, copy_ok, io_ok, start_rc) ==
  StartToNewIostream(f, s, h, uri, copy_ok, io_ok, start_rc)

raptor_serialize_start_to_file_handle(f, s, h, uri, copy_ok, io_ok, start_rc) ==
  StartToNewIostream(f, s, h, uri, copy_ok, io_ok, start_rc)

raptor_serialize_set_namespace(f, s, h, ns_rc) ==
  IF f.declare_namespace
  THEN Ret(ns_rc, s, h, <<Called("declare_namespace", ns_rc)>>)
  ELSE Ret(1, s, h, <<>>)

\* faulty variant: declare_namespace is not fallen back to
raptor_serialize_set_namespace_from_namespace_NoFallback(f, s, h, ns_rc) ==
  IF f.declare_namespace_from_namespace
  THEN Ret(ns_rc, s, h,
           <<Called("declare_namespace_from_namespace", ns_rc)>>)
  ELSE Ret(1, s, h, <<>>)

raptor_serialize_set_namespace_from_namespace(f, s, h, ns_rc) ==
  IF f.declare_namespace_from_namespace
  THEN Ret(ns_rc, s, h,
           <<Called("declare_namespace_from_namespace", ns_rc)>>)
  ELSE IF f.declare_namespace
  THEN Ret(ns_rc, s, h, <<Called("declare_namespace", ns_rc)>>)
  ELSE Ret(1, s, h, <<>>)

\* what the factory's serialize_statement does to the serializer: it writes
\* to the iostream and may advance the locator by a line
StatementCallback(s, advance) ==
  IF advance /\ s.locator.line < MaxLine
  THEN [s EXCEPT !.locator.line = @ + 1]
  ELSE s

\* faulty variant: the statement is handed to the factory without a look at the
\* iostream
raptor_serialize_statement_Unchecked(f, s, h, advance, stmt_rc) ==
  Ret(stmt_rc, StatementCallback(s, advance), h,
      <<Called("serialize_statement", stmt_rc)>>)

raptor_serialize_statement(f, s, h, advance, stmt_rc) ==
  IF s.iostream = NULL THEN Ret(1, s, h, <<>>)
  ELSE Ret(stmt_rc, StatementCallback(s, advance), h,
           <<Called("serialize_statement", stmt_rc)>>)

\* faulty variant: the iostream is kept when serialize_end failed
raptor_serialize_end_KeepOnFailure(f, s, h, end_rc) ==
  IF s.iostream = NULL THEN Ret(1, s, h, <<>>)
  ELSE
    LET rc  == IF f.serialize_end THEN end_rc ELSE 0
        cbs == IF f.serialize_end
               THEN <<Called("serialize_end", end_rc)>> ELSE <<>>
    IN IF rc = 0
       THEN Ret(rc, [s EXCEPT !.iostream = NULL], Release(h, s.iostream), cbs)
       ELSE Ret(rc, s, h, cbs)

raptor_serialize_end(f, s, h, end_rc) ==
  IF s.iostream = NULL THEN Ret(1, s, h, <<>>)
  ELSE
    LET rc  == IF f.serialize_end THEN end_rc ELSE 0
        cbs == IF f.serialize_end
               THEN <<Called("serialize_end", end_rc)>> ELSE <<>>
    IN IF s.iostream # NULL
       THEN Ret(rc, [s EXCEPT !.iostream = NULL], Release(h, s.iostream), cbs)
       ELSE Ret(rc, s, h, cbs)

(***************************************************************************)
(* Features.                                                               *)
(***************************************************************************)
\* faulty variant: any non-negative XML version is stored
raptor_serializer_set_feature_AnyVersion(s, feature, value) ==
  IF value < 0 THEN [rc |-> -1, ser |-> s]
  ELSE CASE feature = "RELATIVE_URIS" ->
              [rc |-> 0, ser |-> [s EXCEPT !.feature_relative_uris = value]]
         [] feature = "START_URI" ->
              [rc |-> -1, ser |-> s]
         [] feature = "WRITER_XML_VERSION" ->
              [rc |-> 0, ser |-> [s EXCEPT !.xml_version = value]]
         [] feature = "WRITER_XML_DECLARATION" ->
              [rc |-> 0,
               ser |-> [s EXCEPT !.feature_write_xml_declaration = value]]
         [] OTHER ->
              [rc |-> -1, ser |-> s]

\* faulty variant: the sign of the value is not tested
raptor_serializer_set_feature_NoSignTest(s, feature, value) ==
  CASE feature = "RELATIVE_URIS" ->
         [rc |-> 0, ser |-> [s EXCEPT !.feature_relative_uris = value]]
    [] feature = "START_URI" ->
         [rc |-> -1, ser |-> s]
    [] feature = "WRITER_XML_VERSION" ->
         [rc |-> 0,
          ser |-> IF value = 10 \/ value = 11
                  THEN [s EXCEPT !.xml_version = value] ELSE s]
    [] feature = "WRITER_XML_DECLARATION" ->
         [rc |-> 0,
          ser |-> [s EXCEPT !.feature_write_xml_declaration = value]]
    [] OTHER ->
         [rc |-> -1, ser |-> s]

raptor_serializer_set_feature(s, feature, value) ==
  IF value < 0 THEN [rc |-> -1, ser |-> s]
  ELSE CASE feature = "RELATIVE_URIS" ->
              [rc |-> 0, ser |-> [s EXCEPT !.feature_relative_uris = value]]
         [] feature = "START_URI" ->
              [rc |-> -1, ser |-> s]
         [] feature = "WRITER_XML_VERSION" ->
              [rc |-> 0,
               ser |-> IF value = 10 \/ value = 11
                       THEN [s EXCEPT !.xml_version = value] ELSE s]
         [] feature = "WRITER_XML_DECLARATION" ->
              [rc |-> 0,
               ser |-> [s EXCEPT !.feature_write_xml_declaration = value]]
         [] OTHER ->
              [rc |-> -1, ser |-> s]

\* raptor_serializer_copy_string(&dest, src): dest is the pointer stored in
\* the field, malloc_ok whether RAPTOR_MALLOC succeeds
raptor_serializer_copy_string(h, dest, src, malloc_ok) ==
  LET h1 == IF dest # NULL THEN Release(h, dest) ELSE h IN
  IF ~malloc_ok THEN [rc |-> -1, dest |-> NULL, heap |-> h1]
  ELSE [rc |-> 0, dest |-> NewPtr(h1), heap |-> Alloc(h1, "cstring", src)]

IsSpace(c) == c \in {" ", "\t", "\n"}

DigitValue(c) ==
  CASE c = "0" -> 0 [] c = "1" -> 1 [] c = "2" -> 2 [] c = "3" -> 3
    [] c = "4" -> 4 [] c = "5" -> 5 [] c = "6" -> 6 [] c = "7" -> 7
    [] c = "8" -> 8 [] c = "9" -> 9 [] OTHER -> -1

\* the digits of str from position i on, accumulated onto acc
RECURSIVE AtoiDigits(_, _, _)
AtoiDigits(str, i, acc) ==
  IF i > Len(str) \/ DigitValue(str[i]) < 0 THEN acc
  ELSE AtoiDigits(str, i + 1, 10 * acc + DigitValue(str[i]))

RECURSIVE SkipSpace(_, _)
SkipSpace(str, i) ==
  IF i <= Len(str) /\ IsSpace(str[i]) THEN SkipSpace(str, i + 1) ELSE i

\* faulty variant: a sign is not read
atoi_Unsigned(str) ==
  AtoiDigits(str, SkipSpace(str, 1), 0)

\* atoi(3): leading white space, an optional sign, then decimal digits
atoi(str) ==
  LET i == SkipSpace(str, 1) IN
  IF i <= Len(str) /\ str[i] = "-" THEN 0 - AtoiDigits(str, i + 1, 0)
  ELSE IF i <= Len(str) /\ str[i] = "+" THEN AtoiDigits(str, i + 1, 0)
  ELSE AtoiDigits(str, i, 0)

\* the case labels of raptor_serializer_set_feature_string that fall through
\* to the RESOURCE_BORDER statement
FallThroughToResourceBorder ==
  ParserFeatures \cup SharedFeatures \cup XmlWriterFeatures
    \cup {"WRITER_XML_VERSION", "WRITER_XML_DECLARATION", "RESOURCE_BORDER"}

\* faulty variant: the feature's value type is not looked at, so the
\* switch is reached for every feature
raptor_serializer_set_feature_string_NoTypeTest(s, h, feature, value, alloc_ok) ==
  LET CopyTo(field) ==
        LET c == raptor_serializer_copy_string(h, s[field], value, TRUE)
        IN Ret(c.rc, [s EXCEPT ![field] = c.dest], c.heap, <<>>)
  IN
  CASE feature = "START_URI" ->
         IF value # NullStr
         THEN IF alloc_ok
              THEN Ret(0, [s EXCEPT !.feature_start_uri = NewPtr(h)],
                       Alloc(h, "uri", value), <<>>)
              ELSE Ret(0, [s EXCEPT !.feature_start_uri = NULL], h, <<>>)
         ELSE Ret(-1, s, h, <<>>)
    [] feature = "RELATIVE_URIS" ->
         Ret(-1, s, h, <<>>)
    [] feature \in FallThroughToResourceBorder ->
         CopyTo("feature_resource_border")
    [] feature \in BorderFillFeatures \ {"RESOURCE_BORDER"} ->
         CopyTo(BorderField(feature))
    [] OTHER ->
         Ret(-1, s, h, <<>>)

\* value: the C string, NullStr for NULL; alloc_ok: whether the allocation
\* made (raptor_new_uri or RAPTOR_MALLOC) succeeds
raptor_serializer_set_feature_string(s, h, feature, value, alloc_ok) ==
  LET value_is_string == (raptor_feature_value_type(feature) = 1)
      CopyTo(field) ==
        LET c == raptor_serializer_copy_string(h, s[field], value, alloc_ok)
        IN Ret(c.rc, [s EXCEPT ![field] = c.dest], c.heap, <<>>)
  IN
  IF ~value_is_string THEN
    LET r == raptor_serializer_set_feature(s, feature, atoi(value))
    IN Ret(r.rc, r.ser, h, <<>>)
  ELSE CASE feature = "START_URI" ->
              IF value # NullStr
              THEN IF alloc_ok
                   THEN Ret(0, [s EXCEPT !.feature_start_uri = NewPtr(h)],
                            Alloc(h, "uri", value), <<>>)
                   ELSE Ret(0, [s EXCEPT !.feature_start_uri = NULL], h, <<>>)
              ELSE Ret(-1, s, h, <<>>)
         [] feature = "RELATIVE_URIS" ->
              Ret(-1, s, h, <<>>)
         [] feature \in FallThroughToResourceBorder ->
              CopyTo("feature_resource_border")
         [] feature \in BorderFillFeatures \ {"RESOURCE_BORDER"} ->
              CopyTo(BorderField(feature))
         [] OTHER ->
              Ret(-1, s, h, <<>>)

\* faulty variant: the relative-URIs value is returned as stored
raptor_serializer_get_feature_Raw(s, feature) ==
  CASE feature = "RELATIVE_URIS" -> s.feature_relative_uris
    [] feature \in StringFeatures -> -1
    [] feature = "WRITER_XML_VERSION" -> s.xml_version
    [] feature = "WRITER_XML_DECLARATION" -> s.feature_write_xml_declaration
    [] OTHER -> -1

\* faulty variant: result starts at 0, so the default case returns 0
raptor_serializer_get_feature_ZeroDefault(s, feature) ==
  CASE feature = "RELATIVE_URIS" ->
         IF s.feature_relative_uris # 0 THEN 1 ELSE 0
    [] feature \in StringFeatures -> -1
    [] feature = "WRITER_XML_VERSION" -> s.xml_version
    [] feature = "WRITER_XML_DECLARATION" -> s.feature_write_xml_declaration
    [] OTHER -> 0

raptor_serializer_get_feature(s, feature) ==
  CASE feature = "RELATIVE_URIS" ->
         IF s.feature_relative_uris # 0 THEN 1 ELSE 0
    [] feature \in StringFeatures -> -1
    [] feature = "WRITER_XML_VERSION" -> s.xml_version
    [] feature = "WRITER_XML_DECLARATION" -> s.feature_write_xml_declaration
    [] OTHER -> -1

\* the C string the returned pointer refers to, NullStr for NULL
raptor_serializer_get_feature_string(s, h, feature) ==
  LET value_is_string == (raptor_feature_value_type(feature) = 1) IN
  IF ~value_is_string THEN NullStr
  ELSE CASE feature = "START_URI" ->
              IF s.feature_start_uri # NULL
              THEN h[s.feature_start_uri].val ELSE NullStr
         [] feature = "RELATIVE_URIS" -> NullStr
         [] feature \in BorderFillFeatures ->
              IF s[BorderField(feature)] # NULL
              THEN h[s[BorderField(feature)]].val ELSE NullStr
         [] OTHER -> NullStr

(***************************************************************************)
(* Errors and warnings.                                                    *)
(***************************************************************************)
raptor_serializer_set_error_handler(s, user_data, handler) ==
  [s EXCEPT !.error_user_data = user_data, !.error_handler = handler]

raptor_serializer_set_warning_handler(s, user_data, handler) ==
  [s EXCEPT !.warning_user_data = user_data, !.warning_handler = handler]

\* one invocation of a raptor_message_handler, with its three arguments
Handled(fn, handler, user_data, locator, message) ==
  [fn |-> fn, handler |-> handler, user_data |-> user_data,
   locator |-> locator, message |-> message]

\* what raptor_print_locator writes for the locator of the serializer
LocatorText == "(locator)"

\* what a report leaves: the handler invocations, the pieces written to
\* stderr in order, and whether the byte in front of the buffer was read
\* and was written
Reported(handled, stderr, read_before, wrote_before) ==
  [handled |-> handled, stderr |-> stderr,
   read_before |-> read_before, wrote_before |-> wrote_before]

\* message: the text the format and its arguments give; vsnprintf_ok:
\* whether raptor_vsnprintf returns a buffer; before: the byte in front of
\* the buffer, which buffer[length-1] is when the text is empty
raptor_serializer_error_varargs(s, message, vsnprintf_ok, before) ==
  IF s.error_handler # NULL THEN
    IF ~vsnprintf_ok
    THEN Reported(<<>>, <<"raptor_serializer_error_varargs: Out of memory", "\n">>,
                  FALSE, FALSE)
    ELSE
      LET length == Len(message)
          final  == IF length > 0 THEN message[length] ELSE before
          buffer == IF final = "\n" /\ length > 0
                    THEN SubSeq(message, 1, length - 1) ELSE message
      IN Reported(<<Handled("error_handler", s.error_handler,
                            s.error_user_data, s.locator, buffer)>>,
                  <<>>, length = 0, length = 0 /\ final = "\n")
  ELSE
    Reported(<<>>,
             <<LocatorText, " raptor error - ">> \o message \o <<"\n">>,
             FALSE, FALSE)

\* message: the text the format and its arguments give; vsnprintf_ok:
\* whether raptor_vsnprintf returns a buffer; before: the byte in front of
\* the buffer, which buffer[length-1] is when the text is empty
raptor_serializer_warning_varargs(s, message, vsnprintf_ok, before) ==
  IF s.warning_handler # NULL THEN
    IF ~vsnprintf_ok
    THEN Reported(<<>>, <<"raptor_serializer_warning_varargs: Out of memory", "\n">>,
                  FALSE, FALSE)
    ELSE
      LET length == Len(message)
          final  == IF length > 0 THEN message[length] ELSE before
          buffer == IF final = "\n" /\ length > 0
                    THEN SubSeq(message, 1, length - 1) ELSE message
      IN Reported(<<Handled("warning_handler", s.warning_handler,
                            s.warning_user_data, s.locator, buffer)>>,
                  <<>>, length = 0, length = 0 /\ final = "\n")
  ELSE
    Reported(<<>>,
             <<LocatorText, " raptor warning - ">> \o message \o <<"\n">>,
             FALSE, FALSE)

(***************************************************************************)
(* Inputs.                                                                 *)
(***************************************************************************)
NameInputs == {NoName, "rdfxml", "ntriples", "nt", "turtle", "dot"}

UriInputs == {NullStr, <<"u">>}

FilenameInputs == {<<"a">>}

CallbackResults == {0, 1}

IntInputs == {-1, 0, 2, 9, 10, 11}

\* texts handed to set_feature_string for an integer feature
NumeralInputs ==
  {<<"1", "1">>, <<" ", "+", "1", "0">>, <<"9">>, <<"2", "x">>,
   <<"-", "1">>, <<"x">>}

\* texts handed to set_feature_string for a border / fill feature
StyleInputs == {<<"r">>, <<"g">>}

(***************************************************************************)
(* The actions: one per API call.                                          *)
(***************************************************************************)
NoCall ==
  [op |-> "", name |-> "", feature |-> "", value |-> 0, str |-> <<>>,
   sink |-> FALSE, rc |-> 0, cbs |-> <<>>, out |-> <<>>]

\* the objects the fields of the serializer refer to
Referenced(s) ==
  {s.context, s.base_uri, s.locator.uri, s.iostream, s.feature_start_uri,
   s.feature_resource_border, s.feature_literal_border,
   s.feature_bnode_border, s.feature_resource_fill, s.feature_literal_fill,
   s.feature_bnode_fill} \ {NULL}

\* h without the objects whose life has ended as it should: released once,
\* and referred to by no field of s (a freed serializer refers to nothing:
\* s is then ZeroedSerializer)
Forget(s, h) ==
  LET kept == {p \in DOMAIN h : ~(h[p].rel = 1 /\ p \notin Referenced(s))}
  IN [p \in kept |-> h[p]]

WithinBounds(h) == Cardinality(DOMAIN h) <= MaxObjs

\* the factory of the live serializer
TheFactory == serializers[ser.factory]

\* a call on the live serializer that returned r
Returned(r, call) ==
  /\ WithinBounds(Forget(r.ser, r.heap))
  /\ ser' = r.ser
  /\ heap' = Forget(r.ser, r.heap)
  /\ last' = [call EXCEPT !.rc = r.rc, !.cbs = r.cbs]
  /\ UNCHANGED <<serializers, self>>

\* the outcomes of an external call: both when the call is made, one
\* (which the function then ignores) when it is not
Outcomes(made) == IF made THEN BOOLEAN ELSE {TRUE}

Results(made) == IF made THEN CallbackResults ELSE {0}

New(name) ==
  /\ self = "none"
  /\ \E self_ok, context_ok \in BOOLEAN, init_rc \in CallbackResults :
       LET r == raptor_new_serializer(serializers, heap, name,
                                      self_ok, context_ok, init_rc)
       IN /\ self' = IF r.rc = 0 THEN "live" ELSE "none"
          /\ ser' = r.ser
          /\ heap' = Forget(r.ser, r.heap)
          /\ last' = [NoCall EXCEPT !.op = "raptor_new_serializer",
                                    !.name = name, !.rc = r.rc, !.cbs = r.cbs]
  /\ UNCHANGED serializers

\* sink: whether the caller passes an iostream (which it has just made)
Start(uri, sink) ==
  /\ self = "live"
  /\ \E copy_ok \in Outcomes(sink /\ uri # NullStr),
        start_rc \in Results(sink /\ TheFactory.serialize_start) :
       LET h0 == IF sink THEN Alloc(heap, "iostream", <<>>) ELSE heap
           io == IF sink THEN NewPtr(heap) ELSE NULL
       IN Returned(raptor_serialize_start(TheFactory, ser, h0, uri, io,
                                          copy_ok, start_rc),
                   [NoCall EXCEPT !.op = "raptor_serialize_start",
                                  !.sink = sink])

StartToFilename(filename) ==
  /\ self = "live"
  /\ \E string_ok \in BOOLEAN :
     \E uri_ok, io_ok \in Outcomes(string_ok) :
     \E start_rc \in Results(string_ok /\ io_ok
                               /\ TheFactory.serialize_start) :
       Returned(raptor_serialize_start_to_filename(TheFactory, ser, heap,
                    filename, string_ok, uri_ok, io_ok, start_rc),
                [NoCall EXCEPT !.op = "raptor_serialize_start_to_filename",
                               !.sink = string_ok /\ io_ok])

StartToString(uri) ==
  /\ self = "live"
  /\ \E copy_ok \in Outcomes(uri # NullStr), io_ok \in BOOLEAN :
     \E start_rc \in Results(io_ok /\ TheFactory.serialize_start) :
       Returned(raptor_serialize_start_to_string(TheFactory, ser, heap, uri,
                    copy_ok, io_ok, start_rc),
                [NoCall EXCEPT !.op = "raptor_serialize_start_to_string",
                               !.sink = io_ok])

StartToFileHandle(uri) ==
  /\ self = "live"
  /\ \E copy_ok \in Outcomes(uri # NullStr), io_ok \in BOOLEAN :
     \E start_rc \in Results(io_ok /\ TheFactory.serialize_start) :
       Returned(raptor_serialize_start_to_file_handle(TheFactory, ser, heap,
                    uri, copy_ok, io_ok, start_rc),
                [NoCall EXCEPT !.op = "raptor_serialize_start_to_file_handle",
                               !.sink = io_ok])

SetNamespace ==
  /\ self = "live"
  /\ \E ns_rc \in Results(TheFactory.declare_namespace) :
       Returned(raptor_serialize_set_namespace(TheFactory, ser, heap, ns_rc),
                [NoCall EXCEPT !.op = "raptor_serialize_set_namespace"])

SetNamespaceFromNamespace ==
  /\ self = "live"
  /\ \E ns_rc \in Results(TheFactory.declare_namespace_from_namespace
                            \/ TheFactory.declare_namespace) :
       Returned(raptor_serialize_set_namespace_from_namespace(TheFactory,
                    ser, heap, ns_rc),
                [NoCall EXCEPT
                   !.op = "raptor_serialize_set_namespace_from_namespace"])

Statement ==
  /\ self = "live"
  /\ \E advance \in Outcomes(ser.iostream # NULL),
        stmt_rc \in Results(ser.iostream # NULL) :
       Returned(raptor_serialize_statement(TheFactory, ser, heap, advance,
                                           stmt_rc),
                [NoCall EXCEPT !.op = "raptor_serialize_statement"])

End ==
  /\ self = "live"
  /\ \E end_rc \in Results(ser.iostream # NULL /\ TheFactory.serialize_end) :
       Returned(raptor_serialize_end(TheFactory, ser, heap, end_rc),
                [NoCall EXCEPT !.op = "raptor_serialize_end"])

Free ==
  /\ self = "live"
  /\ LET r == raptor_free_serializer(ser, heap)
     IN /\ self' = "freed"
        /\ ser' = r.ser
        /\ heap' = Forget(ZeroedSerializer, r.heap)
        /\ last' = [NoCall EXCEPT !.op = "raptor_free_serializer",
                                  !.cbs = r.cbs]
  /\ UNCHANGED serializers

SetFeature(feature, value) ==
  /\ self = "live"
  /\ LET r == raptor_serializer_set_feature(ser, feature, value)
     IN Returned(Ret(r.rc, r.ser, heap, <<>>),
                 [NoCall EXCEPT !.op = "raptor_serializer_set_feature",
                                !.feature = feature, !.value = value])

\* value is never NULL for a feature other than START_URI: atoi and strlen
\* are handed a string
SetFeatureString(feature, value) ==
  /\ self = "live"
  /\ value = NullStr => feature = "START_URI"
  /\ \E alloc_ok \in Outcomes(raptor_feature_value_type(feature) = 1
                                /\ value # NullStr) :
       Returned(raptor_serializer_set_feature_string(ser, heap, feature,
                                                     value, alloc_ok),
                [NoCall EXCEPT !.op = "raptor_serializer_set_feature_string",
                               !.feature = feature, !.str = value])

\* the result is recorded in last.rc
GetFeature(feature) ==
  /\ self = "live"
  /\ Returned(Ret(raptor_serializer_get_feature(ser, feature), ser, heap,
                  <<>>),
              [NoCall EXCEPT !.op = "raptor_serializer_get_feature",
                             !.feature = feature])

\* the string returned is recorded in last.out
GetFeatureString(feature) ==
  /\ self = "live"
  /\ Returned(Ret(0, ser, heap, <<>>),
              [NoCall EXCEPT
                 !.op = "raptor_serializer_get_feature_string",
                 !.feature = feature,
                 !.out = raptor_serializer_get_feature_string(ser, heap,
                                                              feature)])

\* a syntax module: the metadata it registers with and the function
\* pointers its registration callback stores
Syntax(mime_type, uri_string, callbacks) ==
  [mime_type |-> mime_type, uri_string |-> uri_string,
   factory |-> [serialize_start |-> callbacks, serialize_end |-> callbacks,
                declare_namespace |-> callbacks,
                declare_namespace_from_namespace |-> callbacks]]

SyntaxInputs == {Syntax(NoName, NoName, FALSE), Syntax("m", "u", TRUE)}

SyntaxNames == {"a", "b", "c"}

AliasInputs == {NoName, "a", "x"}

LookupInputs == {NoName, "a", "b", "x", "y"}

CounterInputs == 0..3

WantedInputs == {{}, {"name"}, DOMAIN NoOutput}

Register(name, alias, syntax) ==
  /\ self = "none"
  /\ \E calloc_ok \in BOOLEAN :
       LET r == raptor_serializer_register_factory(
                  serializers, name, "label", syntax.mime_type, alias,
                  syntax.uri_string, syntax.factory, calloc_ok)
       IN /\ Len(r.seq) <= MaxFactories
          /\ serializers' = r.seq
          /\ self' = IF r.fatal = NotFatal THEN self ELSE "aborted"
          /\ last' = [NoCall EXCEPT
                        !.op = "raptor_serializer_register_factory",
                        !.name = name, !.str = <<alias>>,
                        !.rc = IF r.fatal = NotFatal THEN 0 ELSE 1,
                        !.cbs = r.cbs, !.out = <<r.fatal>>]
  /\ UNCHANGED <<ser, heap>>

\* the factory found is recorded in last.out, the result of
\* raptor_serializer_syntax_name_check in last.rc
SyntaxNameCheck(name) ==
  /\ self = "none"
  /\ last' = [NoCall EXCEPT
                !.op = "raptor_serializer_syntax_name_check",
                !.name = name,
                !.rc = raptor_serializer_syntax_name_check(serializers, name),
                !.out = <<raptor_get_serializer_factory(serializers, name)>>]
  /\ UNCHANGED <<serializers, self, ser, heap>>

Enumerate(counter, wanted) ==
  /\ self = "none"
  /\ LET r == raptor_serializers_enumerate(serializers, counter, wanted)
     IN last' = [NoCall EXCEPT !.op = "raptor_serializers_enumerate",
                               !.value = counter, !.str = wanted,
                               !.rc = r.rc, !.out = r.out]
  /\ UNCHANGED <<serializers, self, ser, heap>>

HandlerInputs == {NULL, 1, 2}

UserDataInputs == {1, 2}

MessageInputs ==
  {<<>>, <<"m">>, <<"m", "\n">>, <<"\n">>, <<"m", "\n", "\n">>}

\* the byte in front of an allocated buffer
ByteInputs == {"\n", "x"}

SetErrorHandler(user_data, handler) ==
  /\ self = "live"
  /\ Returned(Ret(0, raptor_serializer_set_error_handler(ser, user_data,
                                                         handler),
                  heap, <<>>),
              [NoCall EXCEPT !.op = "raptor_serializer_set_error_handler",
                             !.value = handler])

SetWarningHandler(user_data, handler) ==
  /\ self = "live"
  /\ Returned(Ret(0, raptor_serializer_set_warning_handler(ser, user_data,
                                                           handler),
                  heap, <<>>),
              [NoCall EXCEPT !.op = "raptor_serializer_set_warning_handler",
                             !.value = handler])

\* a report: the handler invocations are recorded in last.cbs, the rest of
\* what the call did in last.out
Diagnosed(r, fn, message) ==
  Returned(Ret(0, ser, heap, r.handled),
           [NoCall EXCEPT !.op = fn, !.str = message,
                          !.out = [stderr |-> r.stderr,
                                   read_before |-> r.read_before,
                                   wrote_before |-> r.wrote_before]])

Error(message) ==
  /\ self = "live"
  /\ \E vsnprintf_ok \in Outcomes(ser.error_handler # NULL) :
     \E before \in IF ser.error_handler # NULL /\ vsnprintf_ok
                      /\ message = <<>>
                   THEN ByteInputs ELSE {"x"} :
       Diagnosed(raptor_serializer_error_varargs(ser, message, vsnprintf_ok,
                                                 before),
                 "raptor_serializer_error_varargs", message)

Warning(message) ==
  /\ self = "live"
  /\ \E vsnprintf_ok \in Outcomes(ser.warning_handler # NULL) :
     \E before \in IF ser.warning_handler # NULL /\ vsnprintf_ok
                      /\ message = <<>>
                   THEN ByteInputs ELSE {"x"} :
       Diagnosed(raptor_serializer_warning_varargs(ser, message,
                                                   vsnprintf_ok, before),
                 "raptor_serializer_warning_varargs", message)

(***************************************************************************)
(* Spec: the life of one serializer, from raptor_new_serializer to         *)
(* raptor_free_serializer, over the registry of raptor_serializers_init.   *)
(***************************************************************************)
Init ==
  /\ serializers = InitialRegistry
  /\ self = "none"
  /\ ser = ZeroedSerializer
  /\ heap = NoHeap
  /\ last = NoCall

Next ==
  \/ \E name \in NameInputs : New(name)
  \/ \E uri \in UriInputs, sink \in BOOLEAN : Start(uri, sink)
  \/ \E filename \in FilenameInputs : StartToFilename(filename)
  \/ \E uri \in UriInputs : StartToString(uri)
  \/ \E uri \in UriInputs : StartToFileHandle(uri)
  \/ SetNamespace
  \/ SetNamespaceFromNamespace
  \/ Statement
  \/ End
  \/ \E value \in {NullStr, <<"s">>} : SetFeatureString("START_URI", value)
  \/ Free

Spec == Init /\ [][Next]_vars

(***************************************************************************)
(* SpecInt and SpecStr: the feature calls on a serializer that             *)
(* raptor_new_serializer("rdfxml") has just returned.  SpecInt makes every *)
(* call that ends in raptor_serializer_set_feature, SpecStr every call     *)
(* that stores a string.                                                   *)
(***************************************************************************)
InitCreated ==
  LET r == raptor_new_serializer(InitialRegistry, NoHeap, "rdfxml",
                                 TRUE, TRUE, 0)
  IN /\ serializers = InitialRegistry
     /\ self = "live"
     /\ ser = r.ser
     /\ heap = r.heap
     /\ last = [NoCall EXCEPT !.op = "raptor_new_serializer",
                              !.name = "rdfxml", !.rc = r.rc, !.cbs = r.cbs]

NextInt ==
  \/ \E feature \in Features, value \in IntInputs :
       SetFeature(feature, value)
  \/ \E feature \in Features \ StringFeatures, value \in NumeralInputs :
       SetFeatureString(feature, value)

SpecInt == InitCreated /\ [][NextInt]_vars

NextStr ==
  \/ \E feature \in StringFeatures, value \in StyleInputs \cup {NullStr} :
       SetFeatureString(feature, value)
  \/ Free

SpecStr == InitCreated /\ [][NextStr]_vars

(***************************************************************************)
(* SpecGet: the two getters, on every feature, between calls that store    *)
(* integer and string values.                                              *)
(***************************************************************************)
NextGet ==
  \/ \E feature \in {"RELATIVE_URIS", "WRITER_XML_VERSION"},
        value \in {0, 11} :
       SetFeature(feature, value)
  \/ \E feature \in {"START_URI", "LITERAL_FILL"} :
       SetFeatureString(feature, <<"r">>)
  \/ \E feature \in Features : GetFeature(feature)
  \/ \E feature \in Features : GetFeatureString(feature)

SpecGet == InitCreated /\ [][NextGet]_vars

(***************************************************************************)
(* SpecReg: the registry, from the empty sequence raptor_serializers_init  *)
(* makes, through the registrations of syntax modules.                     *)
(***************************************************************************)
InitReg ==
  /\ serializers = <<>>
  /\ self = "none"
  /\ ser = ZeroedSerializer
  /\ heap = NoHeap
  /\ last = NoCall

NextReg ==
  \/ \E name \in SyntaxNames, alias \in AliasInputs, syntax \in SyntaxInputs :
       Register(name, alias, syntax)
  \/ \E name \in LookupInputs : SyntaxNameCheck(name)
  \/ \E counter \in CounterInputs, wanted \in WantedInputs :
       Enumerate(counter, wanted)

SpecReg == InitReg /\ [][NextReg]_vars

(***************************************************************************)
(* SpecDiag: errors and warnings reported on a serializer, with and        *)
(* without handlers, before and during a session.                          *)
(***************************************************************************)
NextDiag ==
  \/ \E user_data \in UserDataInputs, handler \in HandlerInputs :
       SetErrorHandler(user_data, handler)
  \/ \E user_data \in UserDataInputs, handler \in HandlerInputs :
       SetWarningHandler(user_data, handler)
  \/ \E message \in MessageInputs : Error(message)
  \/ \E message \in MessageInputs : Warning(message)
  \/ StartToString(NullStr)
  \/ Statement

SpecDiag == InitCreated /\ [][NextDiag]_vars

(***************************************************************************)
(* SpecFrame: sessions, namespace declarations and reports on a serializer *)
(* whose features and handlers are set before and between them.            *)
(***************************************************************************)
NextFrame ==
  \/ SetFeature("RELATIVE_URIS", 0)
  \/ SetFeatureString("LITERAL_FILL", <<"r">>)
  \/ SetErrorHandler(1, 1)
  \/ SetWarningHandler(2, 2)
  \/ \E sink \in BOOLEAN : Start(NullStr, sink)
  \/ Statement
  \/ End
  \/ SetNamespace
  \/ SetNamespaceFromNamespace
  \/ Error(<<"m">>)
  \/ Warning(<<"m">>)

SpecFrame == InitCreated /\ [][NextFrame]_vars

(***************************************************************************)
(* The claims.  A step "is a call of f" when it sets last.op to f: every   *)
(* action records its call in last.                                        *)
(***************************************************************************)
\* every feature value of a serializer: the integers and the stored pointers
FeatureValues(s) ==
  <<s.feature_relative_uris, s.xml_version, s.feature_write_xml_declaration,
    s.feature_start_uri, s.feature_resource_border, s.feature_literal_border,
    s.feature_bnode_border, s.feature_resource_fill, s.feature_literal_fill,
    s.feature_bnode_fill>>

\* C1: while the serializer has no iostream (created, or ended),
\* raptor_serialize_statement and raptor_serialize_end return non-zero,
\* invoke no factory callback and leave every field of the serializer
\* (iostream, locator, base URI, features) and the heap as they were; so a
\* second raptor_serialize_end right after a successful one fails.
C1_NoSessionCallsFail ==
  [][ /\ (/\ ser.iostream = NULL
          /\ last'.op \in {"raptor_serialize_statement",
                           "raptor_serialize_end"})
         => (/\ last'.rc # 0
             /\ last'.cbs = <<>>
             /\ ser' = ser
             /\ heap' = heap)
      /\ (/\ last.op = "raptor_serialize_end"
          /\ last.rc = 0
          /\ last'.op = "raptor_serialize_end")
         => last'.rc # 0 ]_vars

\* a raptor_serialize_end that failed without reaching the factory's end
\* callback, on a serializer whose session (with a base URI) is over
C1_Witness ==
  /\ self = "live"
  /\ last.op = "raptor_serialize_end"
  /\ last.rc # 0
  /\ last.cbs = <<>>
  /\ serializers[ser.factory].serialize_end
  /\ ser.iostream = NULL
  /\ ser.base_uri # NULL

\* C2: raptor_serialize_end on a serializer with an iostream invokes the
\* factory's serialize_end exactly once if it is set and returns what it
\* returned (0 if it is not set); afterwards the iostream has been released
\* exactly once and the field is NULL, whatever the callback returned.
C2_EndReleasesSink ==
  [][ (/\ ser.iostream # NULL
       /\ last'.op = "raptor_serialize_end")
      => (/\ IF serializers[ser.factory].serialize_end
             THEN /\ Len(last'.cbs) = 1
                  /\ last'.cbs[1].fn = "serialize_end"
                  /\ last'.rc = last'.cbs[1].rc
             ELSE /\ last'.cbs = <<>>
                  /\ last'.rc = 0
          /\ ser'.iostream = NULL
          /\ ser.iostream \notin DOMAIN heap') ]_vars

\* the end callback failed, and the iostream is gone all the same
C2_Witness ==
  /\ last.op = "raptor_serialize_end"
  /\ last.cbs = <<Called("serialize_end", 1)>>
  /\ last.rc = 1
  /\ ser.iostream = NULL
  /\ \A p \in DOMAIN heap : heap[p].kind # "iostream"

\* C3: raptor_serialize_start with a NULL iostream returns non-zero; it has
\* released the base URI the serializer held (and nothing else), has not
\* invoked serialize_start, and has changed neither the iostream, nor the
\* locator's line and column, nor any feature value.
C3_StartWithoutSinkFails ==
  [][ (/\ last'.op = "raptor_serialize_start"
       /\ ~last'.sink)
      => (/\ last'.rc # 0
          /\ last'.cbs = <<>>
          /\ heap' = IF ser.base_uri # NULL
                     THEN Release(heap, ser.base_uri) ELSE heap
          /\ ser'.iostream = ser.iostream
          /\ ser'.locator.line = ser.locator.line
          /\ ser'.locator.column = ser.locator.column
          /\ FeatureValues(ser') = FeatureValues(ser)) ]_vars

\* the call failed in the middle of a session that had a base URI and had
\* advanced the locator: the URI is released, the session's state is kept
C3_Witness ==
  /\ last.op = "raptor_serialize_start"
  /\ ~last.sink
  /\ last.rc # 0
  /\ ser.iostream # NULL
  /\ ser.locator.line > 0
  /\ ser.base_uri # NULL
  /\ heap[ser.base_uri].rel = 1

\* C4: raptor_free_serializer, in whatever state the serializer is, invokes
\* the factory's terminate exactly once, and leaves the context, the base
\* URI and the start-URI feature value released exactly once each.
C4_FreeReleasesOnce ==
  [][ (/\ self = "live"
       /\ last'.op = "raptor_free_serializer")
      => (/\ last'.cbs = <<Called("terminate", 0)>>
          /\ ser.context \notin DOMAIN heap'
          /\ ser.base_uri # NULL => ser.base_uri \notin DOMAIN heap'
          /\ ser.feature_start_uri # NULL
               => ser.feature_start_uri \notin DOMAIN heap') ]_vars

\* whether raptor_get_serializer_factory has a factory to find for name
Registered(name) ==
  IF name = NoName THEN Len(serializers) > 0
  ELSE \E i \in 1..Len(serializers) :
         \/ serializers[i].name = name
         \/ serializers[i].alias # NoName /\ serializers[i].alias = name

\* C5: raptor_new_serializer(name) returns a serializer exactly when a
\* factory is registered for name and its init returned 0; when it returns
\* NULL no serializer is left and nothing it allocated is left unreleased.
C5_NewReturnsIffInit ==
  last.op = "raptor_new_serializer"
    => /\ last.rc = 0
            <=> (/\ Registered(last.name)
                 /\ last.cbs = <<Called("init", 0)>>)
       /\ last.rc = 0 => self = "live" /\ heap[ser.context].rel = 0
       /\ last.rc # 0 => self = "none" /\ heap = NoHeap
       /\ ~Registered(last.name) => last.rc # 0
       /\ (last.cbs # <<>> /\ last.cbs[1] = Called("init", 1)) => last.rc # 0

\* init failed: terminate was called, nothing is left
C5_Witness ==
  /\ last.op = "raptor_new_serializer"
  /\ last.rc # 0
  /\ last.cbs = <<Called("init", 1), Called("terminate", 0)>>
  /\ self = "none"
  /\ heap = NoHeap

\* C6: right after raptor_new_serializer returned a serializer,
\* get_feature gives 1 for RELATIVE_URIS, 10 for WRITER_XML_VERSION and 1
\* for WRITER_XML_DECLARATION, and get_feature_string gives NULL for each
\* of the six border / fill features and for START_URI.
C6_Defaults ==
  (last.op = "raptor_new_serializer" /\ last.rc = 0)
    => /\ raptor_serializer_get_feature(ser, "RELATIVE_URIS") = 1
       /\ raptor_serializer_get_feature(ser, "WRITER_XML_VERSION") = 10
       /\ raptor_serializer_get_feature(ser, "WRITER_XML_DECLARATION") = 1
       /\ \A feature \in StringFeatures :
            raptor_serializer_get_feature_string(ser, heap, feature) = NullStr

\* a serializer of the factory found by alias, just created
C6_Witness ==
  /\ last.op = "raptor_new_serializer"
  /\ last.rc = 0
  /\ last.name = "nt"
  /\ self = "live"
  /\ serializers[ser.factory].name = "ntriples"

\* C7: the stored XML version is always 10 or 11:
\* set_feature(WRITER_XML_VERSION, v) with v >= 0 returns 0, stores v when
\* v is 10 or 11 and leaves the stored version alone otherwise.
C7_XmlVersion ==
  /\ [](self = "live" => ser.xml_version \in {10, 11})
  /\ [][ (/\ last'.op = "raptor_serializer_set_feature"
          /\ last'.feature = "WRITER_XML_VERSION"
          /\ last'.value >= 0)
         => (/\ last'.rc = 0
             /\ ser'.xml_version = IF last'.value \in {10, 11}
                                   THEN last'.value ELSE ser.xml_version) ]_vars

\* set_feature(WRITER_XML_VERSION, 9) succeeded on a serializer set to
\* version 11, which it still has
C7_Witness ==
  /\ last.op = "raptor_serializer_set_feature"
  /\ last.feature = "WRITER_XML_VERSION"
  /\ last.value = 9
  /\ last.rc = 0
  /\ ser.xml_version = 11

\* C8: set_feature with a negative value fails for every feature and
\* changes no stored feature value (nor anything else).
C8_NegativeRejected ==
  [][ (/\ last'.op = "raptor_serializer_set_feature"
       /\ last'.value < 0)
      => (/\ last'.rc # 0
          /\ FeatureValues(ser') = FeatureValues(ser)
          /\ ser' = ser
          /\ heap' = heap) ]_vars

\* set_feature(RELATIVE_URIS, -1) failed after the value had been set to 0
C8_Witness ==
  /\ last.op = "raptor_serializer_set_feature"
  /\ last.feature = "RELATIVE_URIS"
  /\ last.value = -1
  /\ last.rc # 0
  /\ ser.feature_relative_uris = 0

\* the features raptor_serializer_set_feature stores the value of directly
DirectFeatures == {"RELATIVE_URIS", "WRITER_XML_DECLARATION"}

\* C9 (as claimed): after a successful set_feature(id, v) on RELATIVE_URIS
\* or WRITER_XML_DECLARATION, get_feature(id) returns exactly v.
C9_GetReturnsSetValue ==
  (/\ last.op = "raptor_serializer_set_feature"
   /\ last.feature \in DirectFeatures
   /\ last.rc = 0)
    => raptor_serializer_get_feature(ser, last.feature) = last.value

\* what get_feature returns for a feature that was set to v
Read(feature, v) ==
  IF feature = "RELATIVE_URIS" THEN (IF v # 0 THEN 1 ELSE 0) ELSE v

\* C9 (amended): after a successful set_feature(id, v), get_feature(id)
\* returns v for WRITER_XML_DECLARATION, and for RELATIVE_URIS 1 if v is not
\* 0 and 0 if it is; and it keeps returning that until a call sets that
\* feature again.
C9_GetReturnsSetValueAsRead ==
  [][ \A id \in DirectFeatures :
        IF last'.feature = id /\ last'.rc = 0
        THEN last'.op = "raptor_serializer_set_feature"
               => raptor_serializer_get_feature(ser', id) = Read(id, last'.value)
        ELSE raptor_serializer_get_feature(ser', id)
               = raptor_serializer_get_feature(ser, id) ]_vars

\* RELATIVE_URIS was set to 2 and reads 1, after another feature was set
C9_Witness ==
  /\ last.op = "raptor_serializer_set_feature"
  /\ last.feature = "WRITER_XML_DECLARATION"
  /\ last.value = 2
  /\ last.rc = 0
  /\ ser.feature_relative_uris = 2
  /\ raptor_serializer_get_feature(ser, "RELATIVE_URIS") = 1
  /\ raptor_serializer_get_feature(ser, "WRITER_XML_DECLARATION") = 2

\* the pointer a string feature stores
StoredString(s, feature) ==
  IF feature = "START_URI" THEN s.feature_start_uri
  ELSE s[BorderField(feature)]

\* C10: when set_feature_string stores a value for a string feature that
\* already has one, the old value is released exactly once and nothing
\* refers to it any more, and get_feature_string returns the new value.
C10_SecondSetReleasesFirst ==
  [][ (/\ last'.op = "raptor_serializer_set_feature_string"
       /\ last'.feature \in StringFeatures
       /\ last'.rc = 0
       /\ StoredString(ser, last'.feature) # NULL
       /\ StoredString(ser', last'.feature) # NULL)
      => (/\ StoredString(ser, last'.feature) \notin DOMAIN heap'
          /\ raptor_serializer_get_feature_string(ser', heap', last'.feature)
               = last'.str) ]_vars

\* C11: raptor_serializer_get_feature returns -1 for every string feature,
\* every parser feature and a value outside the enumeration;
\* raptor_serializer_get_feature_string returns NULL for every integer
\* feature, for a value outside the enumeration and for a string feature
\* that has no value stored; every feature has one type; and neither call
\* changes the serializer or the heap.
C11_WrongTypeGetter ==
  /\ [](\A feature \in Features \ {UnknownFeature} :
          /\ raptor_feature_value_type(feature) \in {0, 1}
          /\ raptor_feature_value_type(feature) = 1
               <=> feature \in StringFeatures
          /\ raptor_feature_value_type(feature) = 0
               <=> feature \in IntegerFeatures)
  /\ [][ /\ last'.op = "raptor_serializer_get_feature"
            => /\ ser' = ser /\ heap' = heap
               /\ last'.feature \in StringFeatures \cup ParserFeatures
                                      \cup {UnknownFeature}
                    => last'.rc = -1
         /\ last'.op = "raptor_serializer_get_feature_string"
            => /\ ser' = ser /\ heap' = heap
               /\ (\/ last'.feature \in IntegerFeatures \cup {UnknownFeature}
                   \/ /\ last'.feature \in StringFeatures
                      /\ StoredString(ser, last'.feature) = NULL)
                    => last'.out = NullStr ]_vars

\* the integer getter was asked for a string feature that has a value
C11_Witness ==
  /\ last.op = "raptor_serializer_get_feature"
  /\ last.feature = "LITERAL_FILL"
  /\ ser.feature_literal_fill # NULL
  /\ last.rc = -1

\* what atoi(3) returns for each text of NumeralInputs
ExpectedInt(str) ==
  CASE str = <<"1", "1">> -> 11
    [] str = <<" ", "+", "1", "0">> -> 10
    [] str = <<"9">> -> 9
    [] str = <<"2", "x">> -> 2
    [] str = <<"-", "1">> -> -1
    [] str = <<"x">> -> 0

\* a text that is a decimal numeral and nothing else: white space, an
\* optional sign, one digit or more
IsNumeral(str) ==
  LET i == SkipSpace(str, 1)
      j == IF i <= Len(str) /\ str[i] \in {"+", "-"} THEN i + 1 ELSE i
  IN /\ j <= Len(str)
     /\ \A k \in j..Len(str) : DigitValue(str[k]) >= 0

\* C12 (as claimed): raptor_serializer_set_feature_string on an integer
\* feature returns what raptor_serializer_set_feature returns for the
\* integer parsed from the text and stores what it stores, and a text that
\* is not a numeral changes no feature value.
C12_StringSetsAsInt ==
  [][ (/\ last'.op = "raptor_serializer_set_feature_string"
       /\ last'.feature \in IntegerFeatures)
      => LET r == raptor_serializer_set_feature(ser, last'.feature,
                                                ExpectedInt(last'.str))
         IN /\ last'.rc = r.rc
            /\ FeatureValues(ser') = FeatureValues(r.ser)
            /\ ~IsNumeral(last'.str)
                 => FeatureValues(ser') = FeatureValues(ser) ]_vars

\* C12 (amended): raptor_serializer_set_feature_string on an integer
\* feature returns what raptor_serializer_set_feature returns for the
\* integer atoi reads from the text (the leading numeral, 0 when there is
\* none) and leaves the serializer as that call leaves it; so the text
\* "11" for WRITER_XML_VERSION makes get_feature return 11, a text without
\* a leading numeral acts as the value 0, and a text read as negative fails
\* and changes nothing.
C12_StringSetsAsAtoi ==
  [][ (/\ last'.op = "raptor_serializer_set_feature_string"
       /\ last'.feature \in IntegerFeatures)
      => LET r == raptor_serializer_set_feature(ser, last'.feature,
                                                ExpectedInt(last'.str))
         IN /\ last'.rc = r.rc
            /\ ser' = r.ser
            /\ heap' = heap
            /\ (last'.feature = "WRITER_XML_VERSION"
                  /\ last'.str = <<"1", "1">>)
                 => /\ last'.rc = 0
                    /\ raptor_serializer_get_feature(ser', last'.feature) = 11
            /\ (~IsNumeral(last'.str)
                  /\ ExpectedInt(last'.str) = 0
                  /\ last'.feature \in DirectFeatures)
                 => /\ last'.rc = 0
                    /\ raptor_serializer_get_feature(ser', last'.feature) = 0
            /\ ExpectedInt(last'.str) < 0
                 => last'.rc # 0 /\ ser' = ser ]_vars

\* the text "x" stored 0 as the relative-URIs value, which was 1
C12_Witness ==
  /\ last.op = "raptor_serializer_set_feature_string"
  /\ last.feature = "RELATIVE_URIS"
  /\ last.str = <<"x">>
  /\ last.rc = 0
  /\ ser.feature_relative_uris = 0
  /\ ser.xml_version = 11

\* C13: no two factories of the registry have the same name; a
\* registration under a name already registered ends in RAPTOR_FATAL,
\* appends nothing and does not call the registration callback; a
\* registration that succeeds appends one factory, of that name, after the
\* ones there, which stay in their order.
C13_NamesUnique ==
  /\ [](\A i, j \in 1..Len(serializers) :
          serializers[i].name = serializers[j].name => i = j)
  /\ [][ last'.op = "raptor_serializer_register_factory"
         => /\ (\E i \in 1..Len(serializers) :
                  serializers[i].name = last'.name)
               => /\ last'.rc # 0
                  /\ last'.out = <<"already registered">>
                  /\ serializers' = serializers
                  /\ last'.cbs = <<>>
            /\ last'.rc # 0 => serializers' = serializers
            /\ last'.rc = 0
               => /\ Len(serializers') = Len(serializers) + 1
                  /\ SubSeq(serializers', 1, Len(serializers)) = serializers
                  /\ serializers'[Len(serializers')].name = last'.name
                  /\ last'.cbs = <<Called("factory", 0)>> ]_vars

\* a second registration of "a", after "a" and then "b" were registered
C13_Witness ==
  /\ last.op = "raptor_serializer_register_factory"
  /\ last.name = "a"
  /\ last.out = <<"already registered">>
  /\ Len(serializers) = 2
  /\ serializers[1].name = "a"
  /\ serializers[2].name = "b"

\* C14: for every registered factory that has an alias,
\* raptor_get_serializer_factory finds under the alias the factory it finds
\* under that factory's name.
C14_AliasFindsSame ==
  \A i \in 1..Len(serializers) :
    serializers[i].alias # NoName
      => raptor_get_serializer_factory(serializers, serializers[i].alias)
           = raptor_get_serializer_factory(serializers, serializers[i].name)

\* the positions of the factories whose name or alias is name
Matching(name) ==
  {i \in 1..Len(serializers) :
     \/ serializers[i].name = name
     \/ serializers[i].alias # NoName /\ serializers[i].alias = name}

\* C15: raptor_get_serializer_factory(name) finds the first factory, in
\* the order of registration, whose name or alias is name, and NULL when
\* there is none; with a NULL name it finds the factory registered first,
\* and NULL when none is registered; it leaves the registry as it was.
C15_LookupFindsFirst ==
  [][ last'.op = "raptor_serializer_syntax_name_check"
      => /\ serializers' = serializers
         /\ Len(last'.out) = 1
         /\ last'.rc = IF last'.out[1] # NULL THEN 1 ELSE 0
         /\ IF last'.name = NoName
            THEN last'.out[1] = IF Len(serializers) = 0 THEN NULL ELSE 1
            ELSE IF Matching(last'.name) = {}
            THEN last'.out[1] = NULL
            ELSE /\ last'.out[1] \in Matching(last'.name)
                 /\ \A i \in Matching(last'.name) : last'.out[1] <= i ]_vars

\* "x" is the alias of both factories registered and the name of none:
\* the first one is found
C15_Witness ==
  /\ last.op = "raptor_serializer_syntax_name_check"
  /\ last.name = "x"
  /\ Matching("x") = {1, 2}
  /\ last.out = <<1>>
  /\ last.rc = 1

\* C16: raptor_serializers_enumerate(counter) returns 0 and stores the
\* name, label, MIME type and URI string of the factory registered
\* counter-th (from 0) through the pointers given, when counter is less than
\* the number of factories; otherwise it returns non-zero, stores nothing
\* and leaves the registry as it was.
C16_EnumerateByPosition ==
  [][ last'.op = "raptor_serializers_enumerate"
      => /\ serializers' = serializers
         /\ IF last'.value < Len(serializers)
            THEN /\ last'.rc = 0
                 /\ \A p \in DOMAIN NoOutput :
                      last'.out[p] = IF p \in last'.str
                                     THEN serializers[last'.value + 1][p]
                                     ELSE Unwritten
            ELSE /\ last'.rc # 0
                 /\ last'.out = NoOutput ]_vars

\* counter 1 with one factory registered
C16_Witness ==
  /\ last.op = "raptor_serializers_enumerate"
  /\ last.value = 1
  /\ last.str = DOMAIN NoOutput
  /\ Len(serializers) = 1
  /\ last.rc # 0
  /\ last.out = NoOutput

\* whether the step is a report of the severity, and the handler and
\* user data registered for it
IsReport(op) ==
  op \in {"raptor_serializer_error_varargs",
          "raptor_serializer_warning_varargs"}

HandlerFor(s, op) ==
  IF op = "raptor_serializer_error_varargs"
  THEN [fn |-> "error_handler", handler |-> s.error_handler,
        user_data |-> s.error_user_data]
  ELSE [fn |-> "warning_handler", handler |-> s.warning_handler,
        user_data |-> s.warning_user_data]

\* the number of newlines in what was written to stderr
RECURSIVE Newlines(_)
Newlines(text) ==
  IF text = <<>> THEN 0
  ELSE (IF Head(text) = "\n" THEN 1 ELSE 0) + Newlines(Tail(text))

\* the characters written to stderr: the text of the message pieces
Written(out) ==
  IF Len(out.stderr) > 2 THEN SubSeq(out.stderr, 3, Len(out.stderr))
  ELSE out.stderr

\* message without one newline at its end, if it has one
Stripped(message) ==
  IF message # <<>> /\ message[Len(message)] = "\n"
  THEN SubSeq(message, 1, Len(message) - 1) ELSE message

\* C17: a report of an error or a warning, when the handler of that
\* severity is set, invokes that handler once, with the user data set with
\* it, the locator of the serializer and the message, and writes nothing to
\* stderr; when it is not set, it writes one line to stderr and invokes no
\* handler.  The handler of the other severity is never invoked.
C17_ReportRouted ==
  [][ IsReport(last'.op)
      => LET h == HandlerFor(ser, last'.op) IN
         IF h.handler # NULL
         THEN /\ Len(last'.cbs) = 1
              /\ last'.cbs[1].fn = h.fn
              /\ last'.cbs[1].handler = h.handler
              /\ last'.cbs[1].user_data = h.user_data
              /\ last'.cbs[1].locator = ser.locator
              /\ last'.cbs[1].message = Stripped(last'.str)
              /\ last'.out.stderr = <<>>
         ELSE /\ last'.cbs = <<>>
              /\ Newlines(Written(last'.out)) = 1 ]_vars

\* C18: with no handler set, what a report writes to stderr ends with one
\* newline and not two, whether the message ends with a newline or not;
\* with a handler set, the handler is given the message without one
\* newline at its end, and otherwise as it is.
C18_OneNewline ==
  [][ IsReport(last'.op)
      => LET h == HandlerFor(ser, last'.op)
             w == Written(last'.out)
         IN IF h.handler # NULL
            THEN last'.cbs # <<>>
                   => last'.cbs[1].message = Stripped(last'.str)
            ELSE /\ w # <<>>
                 /\ w[Len(w)] = "\n"
                 /\ Len(w) > 1 => w[Len(w) - 1] # "\n" ]_vars

\* C19: raptor_serialize_start with an iostream, on a serializer that has
\* none (created, or ended), releases the base URI the serializer held,
\* stores a copy of the URI given or NULL, sets the locator to that URI, line
\* 0 and column 0, stores the iostream, then invokes serialize_start once if
\* the factory has it and returns its result, and 0 if it has not; and so
\* every time it is called after raptor_serialize_end.
C19_StartBeginsSession ==
  [][ (/\ last'.op = "raptor_serialize_start"
       /\ last'.sink
       /\ ser.iostream = NULL)
      => (/\ ser.base_uri # NULL => ser.base_uri \notin DOMAIN heap'
          /\ ser'.base_uri # NULL
               => /\ ser'.base_uri # ser.base_uri
                  /\ heap'[ser'.base_uri].kind = "uri"
                  /\ heap'[ser'.base_uri].rel = 0
          /\ ser'.locator = [uri |-> ser'.base_uri, line |-> 0, column |-> 0]
          /\ ser'.iostream # NULL
          /\ heap'[ser'.iostream].kind = "iostream"
          /\ heap'[ser'.iostream].rel = 0
          /\ IF serializers[ser.factory].serialize_start
             THEN /\ Len(last'.cbs) = 1
                  /\ last'.cbs[1].fn = "serialize_start"
                  /\ last'.rc = last'.cbs[1].rc
             ELSE /\ last'.cbs = <<>>
                  /\ last'.rc = 0) ]_vars

\* C20: raptor_serializer_set_feature with a parser feature, a value
\* outside the enumeration or a string feature, and
\* raptor_serializer_set_feature_string with a parser feature or a value
\* outside the enumeration, return non-zero and change no feature value,
\* integer or string.
C20_UnsupportedRejected ==
  [][ (\/ /\ last'.op = "raptor_serializer_set_feature"
          /\ last'.feature \in ParserFeatures \cup {UnknownFeature}
                                 \cup StringFeatures
       \/ /\ last'.op = "raptor_serializer_set_feature_string"
          /\ last'.feature \in ParserFeatures \cup {UnknownFeature})
      => (/\ last'.rc # 0
          /\ FeatureValues(ser') = FeatureValues(ser)
          /\ heap' = heap) ]_vars

\* a parser feature was given the text "11", after the XML version was set
C20_Witness ==
  /\ last.op = "raptor_serializer_set_feature_string"
  /\ last.feature = "SCANNING"
  /\ last.str = <<"1", "1">>
  /\ last.rc # 0
  /\ ser.xml_version = 11
  /\ ser.feature_resource_border = NULL

\* the calls of a session, the namespace declarations and the reports
SessionCalls ==
  {"raptor_serialize_start", "raptor_serialize_start_to_filename",
   "raptor_serialize_start_to_string", "raptor_serialize_start_to_file_handle",
   "raptor_serialize_statement", "raptor_serialize_end",
   "raptor_serialize_set_namespace",
   "raptor_serialize_set_namespace_from_namespace",
   "raptor_serializer_error_varargs", "raptor_serializer_warning_varargs"}

\* the handlers of a serializer and their user data
Handlers(s) ==
  <<s.error_user_data, s.error_handler,
    s.warning_user_data, s.warning_handler>>

\* C21: raptor_serialize_start, raptor_serialize_statement,
\* raptor_serialize_end, the two namespace calls and the reports of errors
\* and warnings leave every feature value, both handlers with their user
\* data and the factory of the serializer as they were: what the getters
\* return for every feature is what they returned before the call, in and
\* out of a session and over restarts; and no call at all changes the
\* factory.
C21_SessionKeepsFeatures ==
  /\ [][ser'.factory = ser.factory]_vars
  /\ [][ last'.op \in SessionCalls
         => /\ FeatureValues(ser') = FeatureValues(ser)
            /\ Handlers(ser') = Handlers(ser)
            /\ \A feature \in Features :
                 /\ raptor_serializer_get_feature(ser', feature)
                      = raptor_serializer_get_feature(ser, feature)
                 /\ raptor_serializer_get_feature_string(ser', heap', feature)
                      = raptor_serializer_get_feature_string(ser, heap,
                                                             feature) ]_vars

\* a statement serialized in a session started on a serializer whose
\* relative-URIs feature, fill string and both handlers had been set
C21_Witness ==
  /\ last.op = "raptor_serialize_statement"
  /\ last.rc = 0
  /\ ser.iostream # NULL
  /\ ser.locator.line > 0
  /\ ser.feature_relative_uris = 0
  /\ raptor_serializer_get_feature_string(ser, heap, "LITERAL_FILL") = <<"r">>
  /\ Handlers(ser) = <<1, 1, 2, 2>>

\* C22: raptor_serialize_set_namespace invokes declare_namespace and
\* returns its result if the factory has it, and returns non-zero if not;
\* raptor_serialize_set_namespace_from_namespace invokes
\* declare_namespace_from_namespace if the factory has it, else
\* declare_namespace if it has that, and returns the result, else returns
\* non-zero; each call invokes one callback at most, and is made with or
\* without an iostream and leaves the serializer and the heap as they were.
C22_NamespaceDelegates ==
  [][ LET f == serializers[ser.factory]
          Invoked(fn) == /\ last'.cbs = <<Called(fn, last'.rc)>>
                         /\ last'.rc \in CallbackResults
          Failed == last'.cbs = <<>> /\ last'.rc # 0
      IN /\ last'.op = "raptor_serialize_set_namespace"
            => /\ IF f.declare_namespace
                  THEN Invoked("declare_namespace") ELSE Failed
               /\ ser' = ser /\ heap' = heap
         /\ last'.op = "raptor_serialize_set_namespace_from_namespace"
            => /\ IF f.declare_namespace_from_namespace
                  THEN Invoked("declare_namespace_from_namespace")
                  ELSE IF f.declare_namespace
                  THEN Invoked("declare_namespace") ELSE Failed
               /\ ser' = ser /\ heap' = heap ]_vars

\* a factory with declare_namespace only was handed a namespace, outside a
\* session
C22_Witness ==
  /\ last.op = "raptor_serialize_set_namespace_from_namespace"
  /\ self = "live"
  /\ ~serializers[ser.factory].declare_namespace_from_namespace
  /\ last.cbs = <<Called("declare_namespace", 0)>>
  /\ last.rc = 0
  /\ ser.iostream = NULL

\* C23: through every start, end and free, no base URI the serializer
\* owns is released twice, and the base URI and the locator URI of a live
\* serializer never refer to a URI that has been released.
C23_BaseUriReleasedOnce ==
  /\ \A p \in DOMAIN heap : heap[p].kind = "uri" => heap[p].rel <= 1
  /\ self = "live"
       => \A p \in {ser.base_uri, ser.locator.uri} \ {NULL} :
            heap[p].rel = 0

\* C24: every iostream the serializer has stored and that is not released
\* is the one a live serializer holds: none is overwritten by a start
\* during a session, none is left when the serializer is freed.
C24_IostreamReleasedOnce ==
  \A p \in DOMAIN heap :
    (heap[p].kind = "iostream" /\ heap[p].rel = 0)
      => (self = "live" /\ ser.iostream = p)

\* the four calls that start a session
StartCalls ==
  {"raptor_serialize_start", "raptor_serialize_start_to_filename",
   "raptor_serialize_start_to_string", "raptor_serialize_start_to_file_handle"}

\* C25: a start call that returns non-zero, for whatever reason, leaves
\* the serializer without an iostream, so that raptor_serialize_statement
\* and raptor_serialize_end then fail.
C25_FailedStartNoSession ==
  [][ (last'.op \in StartCalls /\ last'.rc # 0)
      => ser'.iostream = NULL ]_vars

\* C26: raptor_get_serializer_factory, given the name of a registered
\* factory, finds that factory.
C26_NameFindsItself ==
  \A i \in 1..Len(serializers) :
    raptor_get_serializer_factory(serializers, serializers[i].name) = i

\* C27: once the serializer is freed, no string stored by
\* raptor_serializer_set_feature_string (border, fill or start URI) is left
\* unreleased.
C27_FeatureStringsReleased ==
  self = "freed"
    => \A p \in DOMAIN heap :
         heap[p].kind \in {"cstring", "uri"} => heap[p].rel # 0

\* C28: a report handed to a handler looks for the trailing newline inside
\* the formatted message only, whatever its length, and an empty message
\* reaches the handler as it is.
C28_StripInsideMessage ==
  [][ (IsReport(last'.op) /\ last'.cbs # <<>>)
      => /\ ~last'.out.read_before
         /\ ~last'.out.wrote_before
         /\ last'.str = <<>> => last'.cbs[1].message = <<>> ]_vars

=============================================================================
